---- MODULE Spec2Model ----
(***************************************************************************)
(* acdh-xml-validator: the Validator class (src/acdh_xml_validator/        *)
(* __init__.py) and the three batch commands (src/acdh_xml_validator/      *)
(* cli.py).                                                                *)
(*                                                                         *)
(* The XML parser (TeiReader), the RelaxNG engine (lxml) and the           *)
(* Schematron engine (pyschematron) are collaborators: a schema file is    *)
(* "ok", "missing" or "malformed", and a document is either not            *)
(* well-formed or well-formed with a fixed verdict under each schema.      *)
(*                                                                         *)
(* Python values are modelled by strings: "None", "False", "" are the      *)
(* falsy ones.  An attribute that __init__ never assigned holds Unset;     *)
(* reading it raises AttributeError.                                       *)
(***************************************************************************)
EXTENDS Integers, Sequences, FiniteSets, Bags, TLC

VARIABLES
    validator,      \* library: the Validator instance under test, or NoValidator
    ctor_error,     \* library: the exception the last construction raised
    calls,          \* library: bag of the (operation, document, result) observations on the instance
    ncalls,         \* library: number of validation calls made on the instance
    twins,          \* twin harness: verbose flag -> Validator built from the same paths
    twin_calls,     \* twin harness: observations of one call made on both twins
    pc,             \* batch command: position in the command function
    command,        \* batch command: which command runs
    options,        \* batch command: --rng and --schematron values
    files,          \* batch command: glob.glob(files), a list of documents
    cli_validator,  \* batch command: the Validator of the batch
    idx,            \* batch command: loop position in files
    results,        \* batch command: the set of outcomes
    validated,      \* batch command: indices of files handed to the validator, in order
    stdout,         \* batch command: banners echoed
    exit_code,      \* batch command: process exit status
    error           \* batch command: uncaught exception

libvars  == <<validator, ctor_error, calls, ncalls>>
twinvars == <<twins, twin_calls>>
clivars  == <<pc, command, options, files, cli_validator, idx, results,
              validated, stdout, exit_code, error>>
vars     == <<libvars, twinvars, clivars>>

\* Bounds of the model.
MaxCalls == 3
MaxFiles == 3

-----------------------------------------------------------------------------
(* Python values *)

Unset       == "<unset>"
NoError     == "<no error>"
Nothing     == "<nothing>"

\* The value of a variable that is bound to no Validator.
NoValidator ==
    [relaxng_schema |-> Nothing, path_to_rng |-> Nothing,
     schematron_schema |-> Nothing, path_to_schematron |-> Nothing,
     verbose |-> FALSE, error_log |-> <<>>]

\* bool(x) for the values an attribute or an argument can hold.
Truthy(x) == x \notin {"None", "False", "", Unset}

PyBool(b) == IF b THEN "True" ELSE "False"

-----------------------------------------------------------------------------
(* The file system: schema files and documents *)

RngOk        == "schemata/rng.rng"
RngMissing   == "schemata/missing.rng"
RngMalformed == "schemata/malformed.rng"
SchOk        == "schemata/schematron.sch"
SchMissing   == "schemata/missing.sch"
SchMalformed == "schemata/malformed.sch"

FileState(path) ==
    IF path \in {RngOk, SchOk} THEN "ok"
    ELSE IF path \in {RngMissing, SchMissing} THEN "missing"
    ELSE "malformed"

\* A document: well-formed or not; a well-formed one has a verdict under the
\* RelaxNG grammar and one under the Schematron rules.
Malformed == [wf |-> FALSE, rng |-> FALSE, sch |-> FALSE]
Docs == {Malformed} \cup {[wf |-> TRUE, rng |-> r, sch |-> s] : r, s \in BOOLEAN}

\* TeiReader(path_to_xml_file).tree: raises on a document that does not parse.
TeiReaderRaises(doc) == ~doc.wf

\* relaxng_schema.validate(doc) and the error log it leaves behind.
RelaxNGValidate(doc) == doc.rng
RelaxNGErrorLog(doc) == IF doc.rng THEN <<>> ELSE <<"rng error">>

\* validate_document(doc, schema).is_valid() and the svrl:text nodes of its report.
SchematronIsValid(doc) == doc.sch
SvrlTexts(doc) == IF doc.sch THEN <<>> ELSE <<"failed assert">>

-----------------------------------------------------------------------------
(* Validator.__init__ *)

\* The outcome of loading the RelaxNG schema: open + ET.parse + ET.RelaxNG.
LoadRng(path) ==
    IF FileState(path) = "missing" THEN "FileNotFoundError"
    ELSE IF FileState(path) = "malformed" THEN "XMLSyntaxError"
    ELSE NoError

\* The outcome of load_xml_document on the Schematron schema.
LoadSchematron(path) ==
    IF FileState(path) = "missing" THEN "OSError"
    ELSE IF FileState(path) = "malformed" THEN "XMLSyntaxError"
    ELSE NoError

\* The attributes of a fresh object, before __init__ assigns any.
FreshObject ==
    [relaxng_schema |-> Unset, path_to_rng |-> Unset,
     schematron_schema |-> Unset, path_to_schematron |-> Unset,
     verbose |-> FALSE, error_log |-> <<>>]

\* A constructor that swallows a schema load error and goes on without that
\* schema.
ValidatorInitSwallow(path_to_rng, path_to_schematron, verbose) ==
    LET rng_ok == Truthy(path_to_rng) /\ LoadRng(path_to_rng) = NoError
        sch_ok == Truthy(path_to_schematron)
                      /\ LoadSchematron(path_to_schematron) = NoError
    IN  [raises |-> NoError,
         self |-> [relaxng_schema |-> IF rng_ok THEN "RelaxNG" ELSE "False",
                   path_to_rng |-> IF rng_ok THEN path_to_rng ELSE "False",
                   schematron_schema |-> IF sch_ok THEN "ElementTree" ELSE "False",
                   path_to_schematron |-> IF sch_ok THEN path_to_schematron ELSE "False",
                   verbose |-> verbose, error_log |-> <<>>]]

\* Validator(path_to_rng, path_to_schematron, verbose): the exception raised,
\* or the constructed object.  The else branch of the RelaxNG part assigns
\* path_to_rng only; relaxng_schema stays unassigned.
ValidatorInit(path_to_rng, path_to_schematron, verbose) ==
    LET s1 == IF Truthy(path_to_rng)
              THEN [FreshObject EXCEPT !.relaxng_schema = "RelaxNG",
                                       !.path_to_rng = path_to_rng]
              ELSE [FreshObject EXCEPT !.path_to_rng = "False"]
        s2 == IF Truthy(path_to_schematron)
              THEN [s1 EXCEPT !.schematron_schema = "ElementTree",
                              !.path_to_schematron = path_to_schematron]
              ELSE [s1 EXCEPT !.schematron_schema = "False",
                              !.path_to_schematron = "False"]
    IN  IF Truthy(path_to_rng) /\ LoadRng(path_to_rng) # NoError
        THEN [raises |-> LoadRng(path_to_rng), self |-> NoValidator]
        ELSE IF Truthy(path_to_schematron) /\ LoadSchematron(path_to_schematron) # NoError
        THEN [raises |-> LoadSchematron(path_to_schematron), self |-> NoValidator]
        ELSE [raises |-> NoError, self |-> [s2 EXCEPT !.verbose = verbose]]

-----------------------------------------------------------------------------
(* The validation methods.  Each yields the value returned or the exception *)
(* raised, the lines printed, the engine invocations made, and the object   *)
(* after the call.                                                          *)

Returned(self, value, out, engine) ==
    [returns |-> PyBool(value), raises |-> Nothing, out |-> out,
     engine |-> engine, self |-> self]

Raised(self, exc, out, engine) ==
    [returns |-> Nothing, raises |-> exc, out |-> out,
     engine |-> engine, self |-> self]

ErrorLines(log) == [i \in 1..Len(log) |-> "  - " \o log[i]]

\* A RelaxNG validation that takes the verdict from the error log as it stood
\* before the call.
ValidateAgainstRngStaleLog(self, doc) ==
    IF self.relaxng_schema = Unset
    THEN Raised(self, "AttributeError", <<>>, <<>>)
    ELSE IF TeiReaderRaises(doc)
    THEN Returned(self, FALSE,
                  IF self.verbose THEN <<"failed to parse">> ELSE <<>>, <<>>)
    ELSE LET relaxng_valid == RelaxNGValidate(doc) /\ self.error_log = <<>>
             after == [self EXCEPT !.error_log = RelaxNGErrorLog(doc)]
         IN  Returned(after, relaxng_valid,
                      IF ~relaxng_valid /\ self.verbose
                      THEN <<"is not valid according to rng schema">>
                               \o ErrorLines(after.error_log)
                      ELSE <<>>,
                      <<"RelaxNG.validate">>)

\* A RelaxNG validation that reports an invalid document only when verbose.
ValidateAgainstRngQuietPass(self, doc) ==
    IF self.relaxng_schema = Unset
    THEN Raised(self, "AttributeError", <<>>, <<>>)
    ELSE IF TeiReaderRaises(doc)
    THEN Returned(self, FALSE,
                  IF self.verbose THEN <<"failed to parse">> ELSE <<>>, <<>>)
    ELSE LET relaxng_valid == RelaxNGValidate(doc)
             after == [self EXCEPT !.error_log = RelaxNGErrorLog(doc)]
         IN  Returned(after, relaxng_valid \/ ~self.verbose,
                      IF ~relaxng_valid /\ self.verbose
                      THEN <<"is not valid according to rng schema">>
                               \o ErrorLines(after.error_log)
                      ELSE <<>>,
                      <<"RelaxNG.validate">>)

ValidateAgainstRng(self, doc) ==
    IF self.relaxng_schema = Unset
    THEN Raised(self, "AttributeError", <<>>, <<>>)
    ELSE IF ~Truthy(self.relaxng_schema)
    THEN Returned(self, FALSE, <<"No RNG file path provided">>, <<>>)
    ELSE IF TeiReaderRaises(doc)
    THEN Returned(self, FALSE,
                  IF self.verbose THEN <<"failed to parse">> ELSE <<>>, <<>>)
    ELSE LET relaxng_valid == RelaxNGValidate(doc)
             after == [self EXCEPT !.error_log = RelaxNGErrorLog(doc)]
         IN  Returned(after, relaxng_valid,
                      IF ~relaxng_valid /\ self.verbose
                      THEN <<"is not valid according to rng schema">>
                               \o ErrorLines(after.error_log)
                      ELSE <<>>,
                      <<"RelaxNG.validate">>)

\* A Schematron validation that lets the parse error escape unless verbose.
ValidateAgainstSchematronUncaught(self, doc) ==
    IF ~Truthy(self.schematron_schema)
    THEN Returned(self, FALSE, <<"No schematron file path provided">>, <<>>)
    ELSE IF TeiReaderRaises(doc)
    THEN IF self.verbose
         THEN Returned(self, FALSE, <<"failed to parse">>, <<>>)
         ELSE Raised(self, "XMLSyntaxError", <<>>, <<>>)
    ELSE LET schematron_valid == SchematronIsValid(doc)
         IN  Returned(self, schematron_valid,
                      IF self.verbose /\ ~schematron_valid
                      THEN <<"is not valid according to schematron">>
                               \o ErrorLines(SvrlTexts(doc))
                      ELSE <<>>,
                      <<"validate_document">>)

ValidateAgainstSchematron(self, doc) ==
    IF self.schematron_schema = Unset
    THEN Raised(self, "AttributeError", <<>>, <<>>)
    ELSE IF ~Truthy(self.schematron_schema)
    THEN Returned(self, FALSE, <<"No schematron file path provided">>, <<>>)
    ELSE IF TeiReaderRaises(doc)
    THEN Returned(self, FALSE,
                  IF self.verbose THEN <<"failed to parse">> ELSE <<>>, <<>>)
    ELSE LET schematron_valid == SchematronIsValid(doc)
         IN  Returned(self, schematron_valid,
                      IF self.verbose /\ ~schematron_valid
                      THEN <<"is not valid according to schematron">>
                               \o ErrorLines(SvrlTexts(doc))
                      ELSE <<>>,
                      <<"validate_document">>)

Validate(self, doc) ==
    LET r == ValidateAgainstRng(self, doc)
        s == ValidateAgainstSchematron(r.self, doc)
    IN  IF r.raises # Nothing THEN r
        ELSE IF s.raises # Nothing
        THEN Raised(s.self, s.raises, r.out \o s.out, r.engine \o s.engine)
        ELSE Returned(s.self, r.returns = "True" /\ s.returns = "True",
                      r.out \o s.out, r.engine \o s.engine)

Ops == {"validate_against_rng", "validate_against_schematron", "validate"}

\* Method dispatch.
Call(op, self, doc) ==
    IF op = "validate_against_rng" THEN ValidateAgainstRng(self, doc)
    ELSE IF op = "validate_against_schematron" THEN ValidateAgainstSchematron(self, doc)
    ELSE Validate(self, doc)

\* What a caller observes of one call.
Observation(op, doc, r) ==
    [op |-> op, doc |-> doc, returns |-> r.returns, raises |-> r.raises,
     out |-> r.out, engine |-> r.engine]

-----------------------------------------------------------------------------
(* Initial state: nothing constructed, no command started *)

Init ==
    /\ validator = NoValidator
    /\ ctor_error = NoError
    /\ calls = EmptyBag
    /\ ncalls = 0
    /\ twins = [v \in BOOLEAN |-> NoValidator]
    /\ twin_calls = {}
    /\ pc = "start"
    /\ command = Nothing
    /\ options = [rng |-> "None", schematron |-> "None"]
    /\ files = <<>>
    /\ cli_validator = NoValidator
    /\ idx = 0
    /\ results = {}
    /\ validated = <<>>
    /\ stdout = <<>>
    /\ exit_code = -1
    /\ error = NoError

-----------------------------------------------------------------------------
(* A program that uses the library: it constructs one Validator and calls   *)
(* its methods on documents.                                                *)

RngArgs == {"None", RngOk, RngMissing, RngMalformed}
SchArgs == {"None", SchOk, SchMissing, SchMalformed}

\* The instance and the observations after calling op on doc.
AfterCall(op, doc) ==
    LET r == Call(op, validator, doc)
    IN  [validator |-> r.self,
         calls |-> calls (+) SetToBag({Observation(op, doc, r)})]

CallValidateAgainstRng ==
    \E doc \in Docs :
        /\ validator # NoValidator
        /\ ncalls < MaxCalls
        /\ validator' = AfterCall("validate_against_rng", doc).validator
        /\ calls' = AfterCall("validate_against_rng", doc).calls
        /\ ncalls' = ncalls + 1
        /\ UNCHANGED <<ctor_error, twinvars, clivars>>

CallValidateAgainstSchematron ==
    \E doc \in Docs :
        /\ validator # NoValidator
        /\ ncalls < MaxCalls
        /\ validator' = AfterCall("validate_against_schematron", doc).validator
        /\ calls' = AfterCall("validate_against_schematron", doc).calls
        /\ ncalls' = ncalls + 1
        /\ UNCHANGED <<ctor_error, twinvars, clivars>>

CallValidate ==
    \E doc \in Docs :
        /\ validator # NoValidator
        /\ ncalls < MaxCalls
        /\ validator' = AfterCall("validate", doc).validator
        /\ calls' = AfterCall("validate", doc).calls
        /\ ncalls' = ncalls + 1
        /\ UNCHANGED <<ctor_error, twinvars, clivars>>

ConstructValidator ==
    \E p \in RngArgs, q \in SchArgs, v \in BOOLEAN :
        /\ validator = NoValidator
        /\ ctor_error = NoError
        /\ validator' = ValidatorInit(p, q, v).self
        /\ ctor_error' = ValidatorInit(p, q, v).raises
        /\ UNCHANGED <<calls, ncalls, twinvars, clivars>>

Next ==
    \/ ConstructValidator
    \/ CallValidateAgainstRng
    \/ CallValidateAgainstSchematron
    \/ CallValidate

Spec == Init /\ [][Next]_vars

-----------------------------------------------------------------------------
(* A program that builds two Validators from the same schema paths, one     *)
(* verbose and one not, and makes every call on both.                       *)

TwinConstruct ==
    \E p \in RngArgs, q \in SchArgs :
        /\ \A v \in BOOLEAN : twins[v] = NoValidator
        /\ twins' = [v \in BOOLEAN |-> ValidatorInit(p, q, v).self]
        /\ UNCHANGED <<twin_calls, libvars, clivars>>

\* The twins and the observations after calling op on doc on both.
AfterTwinCall(op, doc) ==
    LET loud  == Call(op, twins[TRUE], doc)
        quiet == Call(op, twins[FALSE], doc)
    IN  [twins |-> [v \in BOOLEAN |-> IF v THEN loud.self ELSE quiet.self],
         twin_calls |-> twin_calls \cup
             {[loud |-> Observation(op, doc, loud),
               quiet |-> Observation(op, doc, quiet)]}]

TwinValidateAgainstRng ==
    \E doc \in Docs :
        /\ \A v \in BOOLEAN : twins[v] # NoValidator
        /\ Cardinality(twin_calls) < MaxCalls
        /\ twins' = AfterTwinCall("validate_against_rng", doc).twins
        /\ twin_calls' = AfterTwinCall("validate_against_rng", doc).twin_calls
        /\ UNCHANGED <<libvars, clivars>>

TwinValidateAgainstSchematron ==
    \E doc \in Docs :
        /\ \A v \in BOOLEAN : twins[v] # NoValidator
        /\ Cardinality(twin_calls) < MaxCalls
        /\ twins' = AfterTwinCall("validate_against_schematron", doc).twins
        /\ twin_calls' = AfterTwinCall("validate_against_schematron", doc).twin_calls
        /\ UNCHANGED <<libvars, clivars>>

TwinValidate ==
    \E doc \in Docs :
        /\ \A v \in BOOLEAN : twins[v] # NoValidator
        /\ Cardinality(twin_calls) < MaxCalls
        /\ twins' = AfterTwinCall("validate", doc).twins
        /\ twin_calls' = AfterTwinCall("validate", doc).twin_calls
        /\ UNCHANGED <<libvars, clivars>>

TwinNext ==
    \/ TwinConstruct
    \/ TwinValidateAgainstRng
    \/ TwinValidateAgainstSchematron
    \/ TwinValidate

TwinSpec == Init /\ [][TwinNext]_vars

-----------------------------------------------------------------------------
(* The batch commands validate-all, validate-rng and validate-schematron.   *)
(* The three command functions have the same shape; they differ in the      *)
(* Validator they build and in the method they call on each file.           *)

Commands == {"validate_all", "validate_rng", "validate_schematron"}

\* Values of the --rng and --schematron options (strings; "" is a legal one).
RngOptions == {"", RngOk, RngMissing, RngMalformed}
SchOptions == {"", SchOk, SchMissing, SchMalformed}

\* What glob.glob(files) can return: a list of up to MaxFiles documents.
FileLists == UNION {[1..n -> Docs] : n \in 0..MaxFiles}

\* The Validator(...) call of each command; an option a command does not
\* pass keeps the constructor's default None, and verbose its default True.
CommandValidator(cmd, opts) ==
    IF cmd = "validate_all" THEN ValidatorInit(opts.rng, opts.schematron, TRUE)
    ELSE IF cmd = "validate_rng" THEN ValidatorInit(opts.rng, "None", TRUE)
    ELSE ValidatorInit("None", opts.schematron, TRUE)

\* The method each command calls on every file.
CommandOp(cmd) ==
    IF cmd = "validate_all" THEN "validate"
    ELSE IF cmd = "validate_rng" THEN "validate_against_rng"
    ELSE "validate_against_schematron"

\* A summary that reports failure unless some file passed.
SummaryNoPass(outcomes) ==
    IF "True" \notin outcomes
    THEN [banner |-> "ERRORS!!!!", status |-> 1]
    ELSE [banner |-> "All good!", status |-> 0]

\* The banner and exit status decided from the set of outcomes.
Summary(outcomes) ==
    IF "False" \in outcomes
    THEN [banner |-> "ERRORS!!!!", status |-> 1]
    ELSE [banner |-> "All good!", status |-> 0]

\* validate-all is invoked with its options and expands the glob.
ValidateAll ==
    /\ pc = "start"
    /\ \E rng \in RngOptions, sch \in SchOptions, fs \in FileLists :
        /\ command' = "validate_all"
        /\ options' = [rng |-> rng, schematron |-> sch]
        /\ files' = fs
        /\ pc' = "construct"
        /\ UNCHANGED <<cli_validator, idx, results, validated, stdout,
                       exit_code, error, libvars, twinvars>>

\* validate-rng is invoked with its options and expands the glob.
ValidateRng ==
    /\ pc = "start"
    /\ \E rng \in RngOptions, fs \in FileLists :
        /\ command' = "validate_rng"
        /\ options' = [rng |-> rng, schematron |-> "None"]
        /\ files' = fs
        /\ pc' = "construct"
        /\ UNCHANGED <<cli_validator, idx, results, validated, stdout,
                       exit_code, error, libvars, twinvars>>

\* validate-schematron is invoked with its options and expands the glob.
ValidateSchematron ==
    /\ pc = "start"
    /\ \E sch \in SchOptions, fs \in FileLists :
        /\ command' = "validate_schematron"
        /\ options' = [rng |-> "None", schematron |-> sch]
        /\ files' = fs
        /\ pc' = "construct"
        /\ UNCHANGED <<cli_validator, idx, results, validated, stdout,
                       exit_code, error, libvars, twinvars>>

\* validator = Validator(...); results = set().  An exception of the
\* constructor is caught nowhere: the process ends with a traceback, status 1.
CliConstruct ==
    /\ pc = "construct"
    /\ LET r == CommandValidator(command, options)
       IN  IF r.raises # NoError
           THEN /\ error' = r.raises
                /\ exit_code' = 1
                /\ pc' = "aborted"
                /\ UNCHANGED <<cli_validator, idx, results>>
           ELSE /\ cli_validator' = r.self
                /\ results' = {}
                /\ idx' = 1
                /\ pc' = "loop"
                /\ UNCHANGED <<error, exit_code>>
    /\ UNCHANGED <<command, options, files, validated, stdout, libvars, twinvars>>

\* A loop that stops at the first failing file.
CliLoopBreak ==
    /\ pc = "loop"
    /\ idx <= Len(files)
    /\ LET r == Call(CommandOp(command), cli_validator, files[idx])
       IN  /\ validated' = Append(validated,
                                  [file |-> idx, returns |-> r.returns,
                                   raises |-> r.raises])
           /\ IF r.raises # Nothing
              THEN /\ error' = r.raises
                   /\ exit_code' = 1
                   /\ pc' = "aborted"
                   /\ UNCHANGED <<cli_validator, idx, results>>
              ELSE /\ results' = results \cup {r.returns}
                   /\ cli_validator' = r.self
                   /\ idx' = IF r.returns = "False" THEN Len(files) + 1 ELSE idx + 1
                   /\ UNCHANGED <<error, exit_code, pc>>
    /\ UNCHANGED <<command, options, files, stdout, libvars, twinvars>>

\* One iteration of "for x in tqdm(files): results.add(validator.<op>(x))".
CliLoop ==
    /\ pc = "loop"
    /\ idx <= Len(files)
    /\ LET r == Call(CommandOp(command), cli_validator, files[idx])
       IN  /\ validated' = Append(validated,
                                  [file |-> idx, returns |-> r.returns,
                                   raises |-> r.raises])
           /\ IF r.raises # Nothing
              THEN /\ error' = r.raises
                   /\ exit_code' = 1
                   /\ pc' = "aborted"
                   /\ UNCHANGED <<cli_validator, idx, results>>
              ELSE /\ results' = results \cup {r.returns}
                   /\ cli_validator' = r.self
                   /\ idx' = idx + 1
                   /\ UNCHANGED <<error, exit_code, pc>>
    /\ UNCHANGED <<command, options, files, stdout, libvars, twinvars>>

\* After the loop: the banner, then sys.exit(1) or the return (status 0).
CliFinish ==
    /\ pc = "loop"
    /\ idx > Len(files)
    /\ stdout' = Append(stdout, Summary(results).banner)
    /\ exit_code' = Summary(results).status
    /\ pc' = "done"
    /\ UNCHANGED <<command, options, files, cli_validator, idx, results,
                   validated, error, libvars, twinvars>>

CliNext ==
    \/ ValidateAll
    \/ ValidateRng
    \/ ValidateSchematron
    \/ CliConstruct
    \/ CliLoop
    \/ CliFinish

CliSpec == Init /\ [][CliNext]_vars

-----------------------------------------------------------------------------
(* Properties of the library *)

\* The observations made so far on the instance.
Observed == BagToSet(calls)

\* The schema configuration chosen at construction.
HasRng(self) == Truthy(self.path_to_rng)
HasSchematron(self) == Truthy(self.path_to_schematron)

\* The attributes the class documents, without the engine's error log.
Attributes(self) ==
    <<self.relaxng_schema, self.path_to_rng, self.schematron_schema,
      self.path_to_schematron, self.verbose>>

Conformant == [wf |-> TRUE, rng |-> TRUE, sch |-> TRUE]

\* C1: a validation method whose schema was not supplied at construction
\* returns false and raises nothing, whatever the document.
C1_NoSchemaReturnsFalse ==
    \A c \in Observed :
        (\/ c.op = "validate_against_rng" /\ ~HasRng(validator)
         \/ c.op = "validate_against_schematron" /\ ~HasSchematron(validator))
        => c.returns = "False" /\ c.raises = Nothing

\* C2: with exactly one of the two schemas supplied, validate returns false
\* for every document.
C2_OneSchemaValidateFalse ==
    \A c \in Observed :
        (c.op = "validate" /\ HasRng(validator) # HasSchematron(validator))
        => c.returns = "False"

\* C3: validate returns true exactly when the document is valid according to
\* all schemas supplied at construction (an omitted schema is skipped), and
\* false when none was supplied.
C3_ValidateProvidedSchemas ==
    \A c \in Observed :
        c.op = "validate"
        => c.returns = PyBool(/\ HasRng(validator) \/ HasSchematron(validator)
                              /\ c.doc.wf
                              /\ HasRng(validator) => c.doc.rng
                              /\ HasSchematron(validator) => c.doc.sch)

\* C4: conjunction law, in every configuration: validate(f) returns true only
\* if both single validations of f returned true, false if either of them
\* returned false, and the conjunction of the two when both returned.
C4_ConjunctionLaw ==
    \A v \in Observed :
        v.op = "validate" =>
            /\ \A r \in Observed :
                   (r.op # "validate" /\ r.doc = v.doc) =>
                       /\ v.returns = "True" => r.returns = "True"
                       /\ r.returns = "False" => v.returns = "False"
            /\ \A r, s \in Observed :
                   (/\ r.op = "validate_against_rng"
                    /\ s.op = "validate_against_schematron"
                    /\ r.doc = v.doc /\ s.doc = v.doc
                    /\ r.raises = Nothing /\ s.raises = Nothing)
                   => v.returns = PyBool(r.returns = "True" /\ s.returns = "True")

\* The schema(s) an operation checks against were supplied at construction.
Configured(op, self) ==
    /\ op \in {"validate_against_rng", "validate"} => HasRng(self)
    /\ op \in {"validate_against_schematron", "validate"} => HasSchematron(self)

\* C5: on a document that does not parse, every validation method whose
\* schema(s) are configured returns false, raises nothing and invokes no
\* schema engine, whether verbose or not.
C5_MalformedReturnsFalse ==
    \A c \in Observed :
        (c.doc = Malformed /\ Configured(c.op, validator))
        => c.returns = "False" /\ c.raises = Nothing /\ c.engine = <<>>

C5_Witness ==
    /\ HasRng(validator) /\ HasSchematron(validator) /\ ~validator.verbose
    /\ \A op \in Ops : \E c \in Observed :
           c.op = op /\ c.doc = Malformed /\ c.returns = "False" /\ c.out = <<>>

\* Calls of the same operation on the same document were observed to end the
\* same way.
SameVerdicts ==
    \A c, d \in Observed :
        (c.op = d.op /\ c.doc = d.doc)
        => c.returns = d.returns /\ c.raises = d.raises

\* C10: a validation call leaves the schemas, the schema paths and the verbose
\* flag as they were, and the verdict for a document is the same whatever was
\* validated before it on the same instance.
C10_Stateless ==
    [][ncalls' = ncalls + 1
       => Attributes(validator') = Attributes(validator) /\ SameVerdicts']_vars

\* The conformant document was validated twice, around a document the grammar
\* rejects, and the last call was on the conformant one.
C10_Witness ==
    /\ ncalls = 3
    /\ HasRng(validator) /\ HasSchematron(validator)
    /\ validator.error_log = <<>>
    /\ \E a, b \in Observed :
           /\ a.op = "validate" /\ a.doc = Conformant /\ a.returns = "True"
           /\ b.op = "validate" /\ b.doc = [Conformant EXCEPT !.rng = FALSE]
           /\ CopiesIn(a, calls) = 2
           /\ CopiesIn(b, calls) = 1

-----------------------------------------------------------------------------
(* Properties of the twin harness *)

\* C8: two Validators that differ only in the verbose flag end every call on
\* the same document the same way: same value returned or same exception
\* raised, and the same engine invocations.
C8_VerboseSameVerdict ==
    \A t \in twin_calls :
        /\ t.loud.returns = t.quiet.returns
        /\ t.loud.raises = t.quiet.raises
        /\ t.loud.engine = t.quiet.engine

\* The flag changed what was printed for a rejected document, a document that
\* does not parse and a call that raised were observed as well.
C8_Witness ==
    /\ twins[TRUE].verbose /\ ~twins[FALSE].verbose
    /\ [twins[TRUE] EXCEPT !.verbose = FALSE] = twins[FALSE]
    /\ \E t \in twin_calls :
           /\ t.loud.doc.wf /\ t.loud.returns = "False"
           /\ t.loud.out # <<>> /\ t.quiet.out = <<>>
    /\ \E t \in twin_calls :
           /\ ~t.loud.doc.wf /\ t.loud.returns = "False"
           /\ t.loud.out # <<>> /\ t.quiet.out = <<>>
    /\ \E t \in twin_calls : t.loud.returns = "True"

-----------------------------------------------------------------------------
(* Properties of the batch commands *)

\* The command has built its Validator with the schema(s) it validates against.
SchemasLoaded ==
    /\ pc \in {"loop", "done", "aborted"}
    /\ cli_validator # NoValidator
    /\ Configured(CommandOp(command), cli_validator)

\* Some file's validation returned false.
SomeFileFailed == \E k \in 1..Len(validated) : validated[k].returns = "False"

\* A schema path given to the command names a missing or malformed file.
LoadFails ==
    \/ Truthy(options.rng) /\ FileState(options.rng) \in {"missing", "malformed"}
    \/ Truthy(options.schematron)
           /\ FileState(options.schematron) \in {"missing", "malformed"}

\* C6: a command whose schemas load never aborts; it ends with the failure
\* banner and status 1 if some matched file's validation returned false, and
\* with the success banner and status 0 otherwise (so also when the glob
\* matched nothing); it prints exactly one banner, and none before the end.
C6_BannerAndExit ==
    SchemasLoaded =>
        /\ pc # "aborted" /\ error = NoError
        /\ pc = "loop" => stdout = <<>> /\ exit_code = -1
        /\ pc = "done" =>
               /\ Len(validated) = Len(files)
               /\ results = {validated[k].returns : k \in 1..Len(validated)}
               /\ IF SomeFileFailed
                  THEN stdout = <<"ERRORS!!!!">> /\ exit_code = 1
                  ELSE stdout = <<"All good!">> /\ exit_code = 0
               /\ files = <<>> => results = {} /\ exit_code = 0

\* Three files matched and exactly one of them failed.
C6_Witness ==
    /\ SchemasLoaded /\ pc = "done"
    /\ Len(files) = 3
    /\ Cardinality({k \in 1..Len(validated) : validated[k].returns = "False"}) = 1
    /\ stdout = <<"ERRORS!!!!">> /\ exit_code = 1

\* C7: when a schema file is missing or malformed, the constructor raises the
\* loader's error, the command aborts with it, no file is validated and no
\* banner is printed, however many files the glob matched.
C7_SchemaLoadErrorFatal ==
    LoadFails =>
        /\ CommandValidator(command, options).raises
               \in {"FileNotFoundError", "OSError", "XMLSyntaxError"}
        /\ validated = <<>> /\ stdout = <<>> /\ results = {}
        /\ cli_validator = NoValidator
        /\ pc \in {"construct", "aborted"}
        /\ pc = "aborted" =>
               /\ error = CommandValidator(command, options).raises
               /\ exit_code = 1

C7_Witness ==
    /\ LoadFails /\ pc = "aborted"
    /\ command = "validate_all"
    /\ options.rng = RngOk /\ options.schematron = SchMissing
    /\ Len(files) = 2
    /\ error = "OSError"

\* The files were handed to the validator one after the other from the first.
InOrderOnce ==
    /\ Len(validated) <= Len(files)
    /\ \A k \in 1..Len(validated) : validated[k].file = k

====
